---- MODULE Spec2Model ----
(***************************************************************************)
(* Model of the UserFetchAssess client (src/src/index.ts): class APIClient *)
(* (cookie jar, makeRequest, extractors, login, signed settings call,      *)
(* aggregation) driven by main().                                          *)
(*                                                                         *)
(* Text the code processes character by character (set-cookie entries,     *)
(* the Cookie header, signed values) is a sequence of one-character        *)
(* strings.  An HTML body is the sequence of its <input> elements, each    *)
(* [attr, key, value]: the regular expressions of REGEX_PATTERNS match     *)
(* attr="key" followed by value="...".  A JSON body is the value           *)
(* JSON.parse yields, or Malformed when JSON.parse throws.                 *)
(***************************************************************************)
EXTENDS Integers, Sequences, FiniteSets, TLC

VARIABLES
    cookies,       \* this.cookies: Map in insertion order, a sequence of <<name, value>>
    pc,            \* position of main(): the client method in progress, or Complete / Failed
    inflight,      \* the request handed to https.request and not yet answered, or None
    response,      \* the settled makeRequest promise not yet consumed by its awaiter, or None
    sent,          \* every request issued so far, in order
    received,      \* every transport outcome so far, in order (response or error)
    nonce,         \* main's local nonce
    tokens,        \* fetchAuthenticatedUser's local tokens
    timestamp,     \* fetchAuthenticatedUser's local timestamp
    checkcode,     \* fetchAuthenticatedUser's local checkcode
    users,         \* fetchAllUsers' local users
    settingsUser,  \* fetchAllUsers' local settingsUser
    file,          \* content of users.json, or None while it was not written
    error,         \* the error caught by main's catch block, or None
    now,           \* Date.now(), in milliseconds since the start of the run
    absorbed       \* every set-cookie entry handed to parseCookies so far, in order

vars == <<cookies, pc, inflight, response, sent, received, nonce, tokens, timestamp,
          checkcode, users, settingsUser, file, error, now, absorbed>>


(***************************************************************************)
(* Bounds of the model.                                                    *)
(***************************************************************************)
\* Date.now() reads the start of the run or TickMs later.
TickMs == 1000
\* Number of responses of a run that carry a set-cookie header.
MaxSetCookies == 2
\* Number of set-cookie entries absorbed in a run of the jar specification.
MaxAbsorbs == 3
\* Length of the bulk list handed to the aggregation of the merge specification.
MaxBulk == 2

(***************************************************************************)
(* Program constants (src/src/constants.ts, src/src/index.ts).             *)
(***************************************************************************)
HTTP_OK == 200
HTTP_FOUND == 302
MsPerSecond == 1000

BASE_URL == "https://challenge.sunvoy.com"
API_BASE_URL == "https://api.challenge.sunvoy.com"
EP_LOGIN == "/login"
EP_USERS == "/api/users"
EP_SETTINGS == "/api/settings"
EP_SETTINGS_TOKENS == "/settings/tokens"
USERNAME == "demo@example.org"
PASSWORD == "test"
SECRET == "mys3cr3t"

NONCE_EXTRACTION_FAILED == "Failed to extract nonce from login page"
LOGIN_FAILED == "Login failed with status"
FETCH_USERS_FAILED == "Failed to fetch users. Status"
FETCH_AUTHENTICATED_USER_FAILED == "Failed to fetch authenticated user. Status"
FETCH_TOKENS_FAILED == "Failed to fetch settings tokens"
TOKEN_EXTRACTION_FAILED == "Failed to extract required tokens from settings page"
REQUEST_FAILED == "Request failed"
SYNTAX_ERROR == "SyntaxError"
TYPE_ERROR == "TypeError"

(***************************************************************************)
(* Strings as sequences of characters.                                     *)
(***************************************************************************)
\* String.prototype.split(sep) for a one-character separator: every piece,
\* the empty ones included.
RECURSIVE Split(_, _)
Split(s, sep) ==
    IF \A i \in 1..Len(s) : s[i] # sep
    THEN <<s>>
    ELSE LET k == CHOOSE i \in 1..Len(s) :
                     s[i] = sep /\ \A j \in 1..(i - 1) : s[j] # sep
         IN <<SubSeq(s, 1, k - 1)>> \o Split(SubSeq(s, k + 1, Len(s)), sep)

\* String.prototype.trim().
RECURSIVE Trim(_)
Trim(s) ==
    IF s = <<>> THEN s
    ELSE IF s[1] = " " THEN Trim(Tail(s))
    ELSE IF s[Len(s)] = " " THEN Trim(SubSeq(s, 1, Len(s) - 1))
    ELSE s

\* Array.prototype.join(sep) on strings.
RECURSIVE Join(_, _)
Join(parts, sep) ==
    IF parts = <<>> THEN <<>>
    ELSE IF Len(parts) = 1 THEN parts[1]
    ELSE parts[1] \o sep \o Join(Tail(parts), sep)

(***************************************************************************)
(* Cookie jar: parseCookies and formatCookies.                             *)
(***************************************************************************)
\* Mutant of MapSet: the jar is a list of pairs, every set appends.
MapSet_Append(map, name, value) == Append(map, <<name, value>>)

\* Map.prototype.set: overwrite in place, or append a new key.
MapSet(map, name, value) ==
    IF \E i \in 1..Len(map) : map[i][1] = name
    THEN [i \in 1..Len(map) |-> IF map[i][1] = name THEN <<name, value>> ELSE map[i]]
    ELSE Append(map, <<name, value>>)

\* const [cookiePart] = cookieHeader.split(';')
CookiePart(cookieHeader) == Split(cookieHeader, ";")[1]

\* const [name, value] = cookiePart.split('='): the first two pieces; value is
\* undefined when there is no '='.
CookiePieces(cookieHeader) == Split(CookiePart(cookieHeader), "=")

CookieName(cookieHeader) == CookiePieces(cookieHeader)[1]

CookieValue(cookieHeader) == CookiePieces(cookieHeader)[2]

\* if (cookieHeader) ... if (name && value): undefined and '' are both falsy.
CookieAccepted(cookieHeader) ==
    LET pieces == CookiePieces(cookieHeader)
    IN /\ cookieHeader # <<>>
       /\ pieces[1] # <<>>
       /\ Len(pieces) >= 2
       /\ pieces[2] # <<>>

\* The body of the forEach callback of parseCookies, for one entry.
ParseCookieEntry(map, cookieHeader) ==
    IF CookieAccepted(cookieHeader)
    THEN MapSet(map, Trim(CookieName(cookieHeader)), Trim(CookieValue(cookieHeader)))
    ELSE map

\* headers['set-cookie'] is undefined, one string, or an array of strings.
NoSetCookie == [kind |-> "undefined"]
OneSetCookie(s) == [kind |-> "string", value |-> s]
ManySetCookie(l) == [kind |-> "array", list |-> l]

\* if (!setCookieHeaders) return; cookieArray = Array.isArray(...) ? ... : [...]
CookieArray(setCookieHeaders) ==
    IF setCookieHeaders.kind = "undefined" THEN <<>>
    ELSE IF setCookieHeaders.kind = "array" THEN setCookieHeaders.list
    ELSE IF setCookieHeaders.value = <<>> THEN <<>>
    ELSE <<setCookieHeaders.value>>

RECURSIVE ForEachCookie(_, _)
ForEachCookie(map, cookieArray) ==
    IF cookieArray = <<>> THEN map
    ELSE ForEachCookie(ParseCookieEntry(map, cookieArray[1]), Tail(cookieArray))

parseCookies(map, setCookieHeaders) == ForEachCookie(map, CookieArray(setCookieHeaders))

formatCookies(map) ==
    Join([i \in 1..Len(map) |-> map[i][1] \o <<"=">> \o map[i][2]], <<";", " ">>)

(***************************************************************************)
(* Extractors: extractNonce and extractSettingsTokens.                     *)
(***************************************************************************)
Input(attr, key, value) == [attr |-> attr, key |-> key, value |-> value]

HtmlBody(inputs) == [kind |-> "html", inputs |-> inputs]
JsonBody(value) == [kind |-> "json", value |-> value]

\* The <input> elements a response body shows to String.prototype.match.
Inputs(body) == IF body.kind = "html" THEN body.inputs ELSE <<>>

\* html.match(/attr="key"\s+value="([^"]+)"/): the first element that carries
\* the attribute and a non-empty value; null when there is none.
NoMatch == [found |-> FALSE]

Match(body, attr, key) ==
    LET hits == {i \in 1..Len(Inputs(body)) :
                    /\ Inputs(body)[i].attr = attr
                    /\ Inputs(body)[i].key = key
                    /\ Inputs(body)[i].value # <<>>}
    IN IF hits = {} THEN NoMatch
       ELSE [found |-> TRUE,
             group1 |-> Inputs(body)[CHOOSE i \in hits : \A j \in hits : i <= j].value]

\* REGEX_PATTERNS.NONCE
extractNonce(html) == Match(html, "name", "nonce")

TokenFields == {"access_token", "apiuser", "language", "openId", "operateId", "userId"}

NoTokens == [kind |-> "none"]

\* Mutant of extractSettingsTokens: the check forgets languageMatch, and a
\* missing language yields an empty field.
extractSettingsTokens_FiveOfSix(html) ==
    LET accessTokenMatch == Match(html, "id", "access_token")
        openIdMatch == Match(html, "id", "openId")
        userIdMatch == Match(html, "id", "userId")
        apiUserMatch == Match(html, "id", "apiuser")
        operateIdMatch == Match(html, "id", "operateId")
        languageMatch == Match(html, "id", "language")
    IN IF \/ ~accessTokenMatch.found \/ ~openIdMatch.found \/ ~userIdMatch.found
          \/ ~apiUserMatch.found \/ ~operateIdMatch.found
       THEN [kind |-> "throw"]
       ELSE [kind |-> "tokens",
             access_token |-> accessTokenMatch.group1,
             openId |-> openIdMatch.group1,
             userId |-> userIdMatch.group1,
             apiuser |-> apiUserMatch.group1,
             operateId |-> operateIdMatch.group1,
             language |-> IF languageMatch.found THEN languageMatch.group1 ELSE <<>>]

\* Throws TOKEN_EXTRACTION_FAILED (here: [kind |-> "throw"]) unless all six match.
extractSettingsTokens(html) ==
    LET accessTokenMatch == Match(html, "id", "access_token")
        openIdMatch == Match(html, "id", "openId")
        userIdMatch == Match(html, "id", "userId")
        apiUserMatch == Match(html, "id", "apiuser")
        operateIdMatch == Match(html, "id", "operateId")
        languageMatch == Match(html, "id", "language")
    IN IF \/ ~accessTokenMatch.found \/ ~openIdMatch.found \/ ~userIdMatch.found
          \/ ~apiUserMatch.found \/ ~operateIdMatch.found \/ ~languageMatch.found
       THEN [kind |-> "throw"]
       ELSE [kind |-> "tokens",
             access_token |-> accessTokenMatch.group1,
             openId |-> openIdMatch.group1,
             userId |-> userIdMatch.group1,
             apiuser |-> apiUserMatch.group1,
             operateId |-> operateIdMatch.group1,
             language |-> languageMatch.group1]

(***************************************************************************)
(* Signature: generateCheckcode.                                           *)
(***************************************************************************)
\* UTF-16 code unit order of the characters that occur in payload keys.
CharOrder == <<"I", "_", "a", "b", "c", "d", "e", "g", "i", "k", "l", "m", "n",
               "o", "p", "r", "s", "t", "u">>

CharCode(c) == CHOOSE i \in 1..Len(CharOrder) : CharOrder[i] = c

KeyChars(key) ==
    CASE key = "access_token" -> <<"a","c","c","e","s","s","_","t","o","k","e","n">>
      [] key = "apiuser" -> <<"a","p","i","u","s","e","r">>
      [] key = "language" -> <<"l","a","n","g","u","a","g","e">>
      [] key = "openId" -> <<"o","p","e","n","I","d">>
      [] key = "operateId" -> <<"o","p","e","r","a","t","e","I","d">>
      [] key = "timestamp" -> <<"t","i","m","e","s","t","a","m","p">>
      [] key = "userId" -> <<"u","s","e","r","I","d">>

\* The default comparison of Array.prototype.sort: by code units.
RECURSIVE CharsLess(_, _)
CharsLess(a, b) ==
    IF b = <<>> THEN FALSE
    ELSE IF a = <<>> THEN TRUE
    ELSE IF a[1] # b[1] THEN CharCode(a[1]) < CharCode(b[1])
    ELSE CharsLess(Tail(a), Tail(b))

KeyLess(k1, k2) == CharsLess(KeyChars(k1), KeyChars(k2))

\* Object.keys(...).sort(): the keys of an object are distinct, so the sorted
\* array holds at place i the key with i - 1 keys below it.
SortKeys(keys) ==
    LET keySet == {keys[j] : j \in 1..Len(keys)}
    IN [i \in 1..Len(keys) |->
           CHOOSE k \in keySet : Cardinality({j \in keySet : KeyLess(j, k)}) = i - 1]

\* encodeURIComponent on the characters the model uses: unreserved characters
\* stay, the others become %XX.
EncodeChar(c) ==
    CASE c = " " -> <<"%", "2", "0">>
      [] c = "&" -> <<"%", "2", "6">>
      [] c = "=" -> <<"%", "3", "D">>
      [] c = "%" -> <<"%", "2", "5">>
      [] OTHER -> <<c>>

\* Mutant of encodeURIComponent: the value is written as it is.
encodeURIComponent_Raw(s) == s

RECURSIVE encodeURIComponent(_)
encodeURIComponent(s) ==
    IF s = <<>> THEN <<>> ELSE EncodeChar(s[1]) \o encodeURIComponent(Tail(s))

\* An object literal in insertion order: a sequence of <<key, value>>.
ObjectKeys(obj) == [i \in 1..Len(obj) |-> obj[i][1]]

Get(obj, key) == obj[CHOOSE i \in 1..Len(obj) : obj[i][1] = key][2]

\* The payload object of generateCheckcode.
CheckcodePayload(toks, ts) ==
    << <<"access_token", toks.access_token>>,
       <<"apiuser", toks.apiuser>>,
       <<"language", toks.language>>,
       <<"openId", toks.openId>>,
       <<"operateId", toks.operateId>>,
       <<"timestamp", ts>>,
       <<"userId", toks.userId>> >>

\* `${key}=${encodeURIComponent(payload[key])}`
RenderParam(payload, key) ==
    KeyChars(key) \o <<"=">> \o encodeURIComponent(Get(payload, key))

\* Object.keys(payload).sort().map(key => `${key}=${encodeURIComponent(...)}`)
\* .join('&').  Each array of the chain is a value, built once and handed to
\* the next call: the one element of sorted, of mapped, of joined.
SortedParams(payload) ==
    LET sorted == {SortKeys(ObjectKeys(payload)) \o <<>>}
        mapped == {[i \in 1..Len(keys) |-> RenderParam(payload, keys[i])] \o <<>> :
                      keys \in sorted}
        joined == {Join(params, <<"&">>) : params \in mapped}
    IN CHOOSE sortedParams \in joined : TRUE

\* crypto.createHmac('sha1', key).update(data).digest('hex').toUpperCase():
\* the digest is kept symbolic, one value per (key, data).
HmacSha1HexUpper(key, data) == [hmac |-> "sha1", key |-> key, data |-> data]

NoCheckcode == [hmac |-> "none"]

\* Mutant of generateCheckcode: the signed string is salted with the session cookies.
generateCheckcode_JarSalted(toks, ts) ==
    HmacSha1HexUpper(SECRET, SortedParams(CheckcodePayload(toks, ts)) \o formatCookies(cookies))

generateCheckcode(toks, ts) ==
    HmacSha1HexUpper(SECRET, SortedParams(CheckcodePayload(toks, ts)))

\* Number.prototype.toString() for a non-negative integer.
Digits == <<"0", "1", "2", "3", "4", "5", "6", "7", "8", "9">>

RECURSIVE NumToString(_)
NumToString(n) ==
    IF n < 10 THEN <<Digits[n + 1]>>
    ELSE NumToString(n \div 10) \o <<Digits[(n % 10) + 1]>>

\* Math.floor(Date.now() / 1000).toString()
TimestampOf(ms) == NumToString(ms \div MsPerSecond)

(***************************************************************************)
(* What the server may answer.                                             *)
(***************************************************************************)
Statuses == {200, 201, 302, 404}

\* The login page may come with a server error as well.
LoginPageStatuses == Statuses \cup {500}

SetCookieHeaders ==
    { NoSetCookie,
      OneSetCookie(<<"s", "=", "1">>),
      ManySetCookie(<< <<"s", "=", "2", ";", " ", "P", "=", "/">>,
                       <<"t", "=", "1">>,
                       <<"x", "=">> >>) }

Nonce1 == <<"n", "1">>
Nonce2 == <<"n", "2">>

LoginPages ==
    { HtmlBody(<<>>),
      HtmlBody(<<Input("name", "nonce", Nonce1)>>),
      HtmlBody(<<Input("name", "nonce", <<>>), Input("id", "nonce", Nonce1),
                 Input("name", "nonce", Nonce2), Input("name", "nonce", Nonce1)>>) }

FieldOrder == <<"access_token", "openId", "userId", "apiuser", "operateId", "language">>

\* The value the tokens page of variant v shows for a field.
FieldValue(field, v) ==
    LET initial == CASE field = "access_token" -> "A"
                     [] field = "openId" -> "O"
                     [] field = "userId" -> "U"
                     [] field = "apiuser" -> "P"
                     [] field = "operateId" -> "R"
                     [] field = "language" -> "L"
    IN IF v = 1 THEN <<initial>>
       ELSE IF v = 2 THEN <<initial, " ", "&">>
       ELSE <<initial, "=", "%">>

\* A tokens page that carries the fields of `present`, in variant v.
TokenPage(present, v) ==
    HtmlBody(SelectSeq([i \in 1..Len(FieldOrder) |->
                           Input("id", FieldOrder[i], FieldValue(FieldOrder[i], v))],
                       LAMBDA e : e.key \in present))

TokenPages ==
    {TokenPage(present, 1) : present \in SUBSET TokenFields}
        \cup {TokenPage(TokenFields, 2)}
        \cup {HtmlBody(Append(TokenPage(TokenFields \ {"language"}, 1).inputs,
                              Input("id", "language", <<>>)))}

User(id, firstName, lastName, email) ==
    [kind |-> "object", id |-> id, firstName |-> firstName, lastName |-> lastName,
     email |-> email]

JsonNull == [kind |-> "null"]
JsonArray(items) == [kind |-> "array", items |-> items]

UserA == User("1", "Ann", "A", "a@x.com")
UserB == User("2", "Bob", "B", "b@x.com")
UserC == User("3", "Cy", "C", "c@x.com")
UserA2 == User("9", "Ann", "A", "a@x.com")

UsersBodies ==
    { HtmlBody(<<>>),
      JsonBody(JsonArray(<<>>)),
      JsonBody(JsonArray(<<UserA, UserB>>)) }

SettingsBodies ==
    { HtmlBody(<<>>), JsonBody(JsonNull), JsonBody(UserA2), JsonBody(UserC) }

\* The pages /settings/tokens shows with a status other than 200: getSettingsTokens
\* throws on the status before it reads them.
OtherTokenPages ==
    { HtmlBody(<<>>), TokenPage(TokenFields, 1), TokenPage(TokenFields \ {"userId"}, 1) }

\* The <<status, body>> a request may be answered with.
AnswersFor(path, method) ==
    CASE path = EP_LOGIN /\ method = "GET" -> LoginPageStatuses \X LoginPages
      [] path = EP_LOGIN /\ method = "POST" -> Statuses \X {HtmlBody(<<>>)}
      [] path = EP_USERS -> Statuses \X UsersBodies
      [] path = EP_SETTINGS_TOKENS ->
            ({HTTP_OK} \X TokenPages) \cup ((Statuses \ {HTTP_OK}) \X OtherTokenPages)
      [] path = EP_SETTINGS -> Statuses \X SettingsBodies

\* JSON.parse(response.body)
Malformed == [kind |-> "malformed"]
JsonParse(body) == IF body.kind = "json" THEN body.value ELSE Malformed

(***************************************************************************)
(* makeRequest.                                                            *)
(***************************************************************************)
NoRequest == [kind |-> "none"]
NoResponse == [kind |-> "none"]
NoError == [kind |-> "none"]
NoFile == [kind |-> "none"]
NoUser == [kind |-> "none"]
NoUsers == [kind |-> "none"]
\* A string local that was not assigned yet; the strings assigned are never empty.
NoString == <<>>
NoBody == <<>>

\* if (this.cookies.size > 0) requestHeaders['Cookie'] = this.formatCookies()
CookieHeader(map) ==
    IF Len(map) > 0 THEN [present |-> TRUE, value |-> formatCookies(map)]
    ELSE [present |-> FALSE]

\* Mutant of Request: cookies are attached to requests to the base origin only.
Request_SameOriginCookies(map, method, path, body, useApiBaseUrl) ==
    [kind |-> "request",
     method |-> method,
     baseUrl |-> IF useApiBaseUrl THEN API_BASE_URL ELSE BASE_URL,
     path |-> path,
     cookie |-> IF useApiBaseUrl THEN [present |-> FALSE] ELSE CookieHeader(map),
     body |-> body]

\* Mutant of Request: useApiBaseUrl is ignored, every request goes to the base origin.
Request_AlwaysBaseUrl(map, method, path, body, useApiBaseUrl) ==
    [kind |-> "request",
     method |-> method,
     baseUrl |-> BASE_URL,
     path |-> path,
     cookie |-> CookieHeader(map),
     body |-> body]

\* The options and body handed to https.request.
Request(map, method, path, body, useApiBaseUrl) ==
    [kind |-> "request",
     method |-> method,
     baseUrl |-> IF useApiBaseUrl THEN API_BASE_URL ELSE BASE_URL,
     path |-> path,
     cookie |-> CookieHeader(map),
     body |-> body]

\* makeRequest up to req.end(): the request is built and handed to the transport.
makeRequest(method, path, body, useApiBaseUrl) ==
    LET req == Request(cookies, method, path, body, useApiBaseUrl)
    IN /\ inflight' = req
       /\ sent' = Append(sent, req)

\* Mutant of Idle: a method does not await the call it made before it makes the next.
Idle_NoAwait == response = NoResponse

\* The promise of makeRequest is pending, settled, or not there.
Idle == inflight = NoRequest /\ response = NoResponse

\* The responses so far that carried a set-cookie header.
SetCookieCount ==
    Cardinality({i \in 1..Len(received) :
                    received[i].kind = "response" /\ received[i].setCookie # NoSetCookie})

\* Mutant of OnResponseEnd: the promise resolves and the cookies of the response
\* are not absorbed.
OnResponseEnd_NoAbsorb ==
    /\ inflight # NoRequest
    /\ \E answer \in AnswersFor(inflight.path, inflight.method),
          setCookie \in SetCookieHeaders :
          LET res == [kind |-> "response", statusCode |-> answer[1],
                      setCookie |-> setCookie, body |-> answer[2]]
          IN /\ setCookie # NoSetCookie => SetCookieCount < MaxSetCookies
             /\ response' = res
             /\ received' = Append(received, res)
    /\ inflight' = NoRequest
    /\ UNCHANGED <<cookies, absorbed, pc, sent, nonce, tokens, timestamp, checkcode, users,
                   settingsUser, file, error, now>>

\* res.on('end'): the response is recorded with its cookies absorbed
\* (parseCookies), and the promise resolves.
OnResponseEnd ==
    /\ inflight # NoRequest
    /\ \E answer \in AnswersFor(inflight.path, inflight.method),
          setCookie \in SetCookieHeaders :
          LET res == [kind |-> "response", statusCode |-> answer[1],
                      setCookie |-> setCookie, body |-> answer[2]]
          IN /\ setCookie # NoSetCookie => SetCookieCount < MaxSetCookies
             /\ response' = res
             /\ received' = Append(received, res)
             /\ cookies' = parseCookies(cookies, setCookie)
             /\ absorbed' = absorbed \o CookieArray(setCookie)
    /\ inflight' = NoRequest
    /\ UNCHANGED <<pc, sent, nonce, tokens, timestamp, checkcode, users, settingsUser,
                   file, error, now>>

\* req.on('error'): reject(new Error(`Request failed: ...`)).
OnRequestError ==
    /\ inflight # NoRequest
    /\ response' = [kind |-> "rejected"]
    /\ received' = Append(received, [kind |-> "rejected"])
    /\ inflight' = NoRequest
    /\ UNCHANGED <<cookies, absorbed, pc, sent, nonce, tokens, timestamp, checkcode,
                   users, settingsUser, file, error, now>>

(***************************************************************************)
(* main and the client methods it awaits.                                  *)
(***************************************************************************)
Error(message) == [kind |-> "error", message |-> message]
StatusError(message, statusCode) ==
    [kind |-> "error", message |-> message, statusCode |-> statusCode]

\* Mutant of Throw: the catch block saves the users fetched so far.
Throw_SavePartial(err) ==
    /\ error' = err
    /\ pc' = "Failed"
    /\ file' = IF users.kind = "array"
               THEN [kind |-> "written", content |-> users.items]
               ELSE file

\* A throw inside main's try block: the catch block prints the message and
\* calls process.exit(1); it writes no file.
Throw(err) ==
    /\ error' = err
    /\ pc' = "Failed"
    /\ UNCHANGED file

\* Mutant of Rejected: a transport error is swallowed and the call is made again.
Rejected_Retry ==
    /\ response.kind = "rejected"
    /\ UNCHANGED <<pc, error, file>>

\* An awaited makeRequest that rejected rethrows in its awaiter.
Rejected ==
    /\ response.kind = "rejected"
    /\ Throw(Error(REQUEST_FAILED))

\* Date.now(): any reading not before the previous one.
ClockValues == {0, TickMs}

\* Mutant of LoginFormData: the form carries a nonce of an earlier page, not the
\* one handed in.
LoginFormData_StaleNonce(n, username, password) ==
    << <<"nonce", Nonce1>>, <<"username", username>>, <<"password", password>> >>

\* new URLSearchParams({...}): the form fields in insertion order.
LoginFormData(n, username, password) ==
    << <<"nonce", n>>, <<"username", username>>, <<"password", password>> >>

\* Mutant of SignedFormData: the body takes its own clock reading, a second later.
SignedFormData_SecondReading(toks, ts, code) ==
    << <<"access_token", toks.access_token>>,
       <<"apiuser", toks.apiuser>>,
       <<"language", toks.language>>,
       <<"openId", toks.openId>>,
       <<"operateId", toks.operateId>>,
       <<"timestamp", TimestampOf(now + MsPerSecond)>>,
       <<"userId", toks.userId>>,
       <<"checkcode", code>> >>

SignedFormData(toks, ts, code) ==
    << <<"access_token", toks.access_token>>,
       <<"apiuser", toks.apiuser>>,
       <<"language", toks.language>>,
       <<"openId", toks.openId>>,
       <<"operateId", toks.operateId>>,
       <<"timestamp", ts>>,
       <<"userId", toks.userId>>,
       <<"checkcode", code>> >>

\* getLoginNonce up to its await.
GetLoginNonceSend ==
    /\ pc = "getLoginNonce"
    /\ Idle
    /\ makeRequest("GET", EP_LOGIN, NoBody, FALSE)
    /\ UNCHANGED <<cookies, pc, response, received, nonce, tokens, timestamp, checkcode,
                   users, settingsUser, file, error, now, absorbed>>

\* Mutant of GetLoginNonceResume: the null check on the nonce is missing.
GetLoginNonceResume_NoCheck ==
    /\ pc = "getLoginNonce"
    /\ response # NoResponse
    /\ response' = NoResponse
    /\ IF response.kind = "rejected"
       THEN Rejected /\ UNCHANGED nonce
       ELSE LET m == extractNonce(response.body)
            IN /\ nonce' = IF m.found THEN m.group1 ELSE NoString
               /\ pc' = "login"
               /\ UNCHANGED <<error, file>>
    /\ UNCHANGED <<cookies, inflight, sent, received, tokens, timestamp, checkcode, users,
                   settingsUser, now, absorbed>>

\* Mutant of GetLoginNonceResume: the login page counts only when it comes with
\* status 200.
GetLoginNonceResume_StatusChecked ==
    /\ pc = "getLoginNonce"
    /\ response # NoResponse
    /\ response' = NoResponse
    /\ IF response.kind = "rejected"
       THEN Rejected /\ UNCHANGED nonce
       ELSE LET m == extractNonce(response.body)
            IN IF ~m.found \/ response.statusCode # HTTP_OK
               THEN Throw(Error(NONCE_EXTRACTION_FAILED)) /\ UNCHANGED nonce
               ELSE nonce' = m.group1 /\ pc' = "login" /\ UNCHANGED <<error, file>>
    /\ UNCHANGED <<cookies, inflight, sent, received, tokens, timestamp, checkcode, users,
                   settingsUser, now, absorbed>>

\* getLoginNonce after its await, and main's assignment of the result.
GetLoginNonceResume ==
    /\ pc = "getLoginNonce"
    /\ response # NoResponse
    /\ response' = NoResponse
    /\ IF response.kind = "rejected"
       THEN Rejected /\ UNCHANGED nonce
       ELSE LET m == extractNonce(response.body)
            IN IF ~m.found
               THEN Throw(Error(NONCE_EXTRACTION_FAILED)) /\ UNCHANGED nonce
               ELSE nonce' = m.group1 /\ pc' = "login" /\ UNCHANGED <<error, file>>
    /\ UNCHANGED <<cookies, inflight, sent, received, tokens, timestamp, checkcode, users,
                   settingsUser, now, absorbed>>

\* login up to its await.
LoginSend ==
    /\ pc = "login"
    /\ Idle
    /\ makeRequest("POST", EP_LOGIN, LoginFormData(nonce, USERNAME, PASSWORD), FALSE)
    /\ UNCHANGED <<cookies, pc, response, received, nonce, tokens, timestamp, checkcode,
                   users, settingsUser, file, error, now, absorbed>>

\* Mutant of LoginAccepted: a 200 answer counts as a successful login too.
LoginAccepted_Or200(res) == res.statusCode = HTTP_FOUND \/ res.statusCode = HTTP_OK

\* if (response.statusCode === HTTP_STATUS.FOUND)
LoginAccepted(res) == res.statusCode = HTTP_FOUND

\* Mutant of LoginResume: a login that was refused is tried again.
LoginResume_Retry ==
    /\ pc = "login"
    /\ response # NoResponse
    /\ response' = NoResponse
    /\ IF response.kind = "rejected"
       THEN Rejected
       ELSE IF LoginAccepted(response)
            THEN pc' = "fetchUsers" /\ UNCHANGED <<error, file>>
            ELSE UNCHANGED <<pc, error, file>>
    /\ UNCHANGED <<cookies, inflight, sent, received, nonce, tokens, timestamp, checkcode,
                   users, settingsUser, now, absorbed>>

\* login after its await.
LoginResume ==
    /\ pc = "login"
    /\ response # NoResponse
    /\ response' = NoResponse
    /\ IF response.kind = "rejected"
       THEN Rejected
       ELSE IF LoginAccepted(response)
            THEN pc' = "fetchUsers" /\ UNCHANGED <<error, file>>
            ELSE Throw(StatusError(LOGIN_FAILED, response.statusCode))
    /\ UNCHANGED <<cookies, inflight, sent, received, nonce, tokens, timestamp, checkcode,
                   users, settingsUser, now, absorbed>>

\* fetchUsers up to its await (first statement of fetchAllUsers).
FetchUsersSend ==
    /\ pc = "fetchUsers"
    /\ Idle
    /\ makeRequest("POST", EP_USERS, NoBody, FALSE)
    /\ UNCHANGED <<cookies, pc, response, received, nonce, tokens, timestamp, checkcode,
                   users, settingsUser, file, error, now, absorbed>>

\* Mutant of UsersAccepted: every 2xx status is accepted.
UsersAccepted_Any2xx(res) == res.statusCode >= 200 /\ res.statusCode <= 299

\* if (response.statusCode === HTTP_STATUS.OK) in fetchUsers
UsersAccepted(res) == res.statusCode = HTTP_OK

\* fetchUsers after its await.
FetchUsersResume ==
    /\ pc = "fetchUsers"
    /\ response # NoResponse
    /\ response' = NoResponse
    /\ IF response.kind = "rejected"
       THEN Rejected /\ UNCHANGED users
       ELSE IF UsersAccepted(response)
            THEN IF JsonParse(response.body) = Malformed
                 THEN Throw(Error(SYNTAX_ERROR)) /\ UNCHANGED users
                 ELSE /\ users' = JsonParse(response.body)
                      /\ pc' = "getSettingsTokens"
                      /\ UNCHANGED <<error, file>>
            ELSE /\ Throw(StatusError(FETCH_USERS_FAILED, response.statusCode))
                 /\ UNCHANGED users
    /\ UNCHANGED <<cookies, inflight, sent, received, nonce, tokens, timestamp, checkcode,
                   settingsUser, now, absorbed>>

\* getSettingsTokens up to its await (first statement of fetchAuthenticatedUser).
GetSettingsTokensSend ==
    /\ pc = "getSettingsTokens"
    /\ Idle
    /\ makeRequest("GET", EP_SETTINGS_TOKENS, NoBody, FALSE)
    /\ UNCHANGED <<cookies, pc, response, received, nonce, tokens, timestamp, checkcode,
                   users, settingsUser, file, error, now, absorbed>>

\* if (response.statusCode !== HTTP_STATUS.OK) throw, in getSettingsTokens
TokensAccepted(res) == res.statusCode = HTTP_OK

\* getSettingsTokens after its await.
GetSettingsTokensResume ==
    /\ pc = "getSettingsTokens"
    /\ response # NoResponse
    /\ response' = NoResponse
    /\ IF response.kind = "rejected"
       THEN Rejected /\ UNCHANGED tokens
       ELSE IF ~TokensAccepted(response)
            THEN /\ Throw(StatusError(FETCH_TOKENS_FAILED, response.statusCode))
                 /\ UNCHANGED tokens
            ELSE LET extracted == extractSettingsTokens(response.body)
                 IN IF extracted.kind = "throw"
                    THEN Throw(Error(TOKEN_EXTRACTION_FAILED)) /\ UNCHANGED tokens
                    ELSE /\ tokens' = extracted
                         /\ pc' = "fetchAuthenticatedUser"
                         /\ UNCHANGED <<error, file>>
    /\ UNCHANGED <<cookies, inflight, sent, received, nonce, timestamp, checkcode, users,
                   settingsUser, now, absorbed>>

\* fetchAuthenticatedUser from the timestamp to the await of the signed POST.
FetchAuthenticatedUserSend ==
    /\ pc = "fetchAuthenticatedUser"
    /\ Idle
    /\ \E t \in ClockValues :
          /\ t >= now
          /\ now' = t
          /\ timestamp' = TimestampOf(t)
    /\ checkcode' = generateCheckcode(tokens, timestamp')
    /\ makeRequest("POST", EP_SETTINGS, SignedFormData(tokens, timestamp', checkcode'), TRUE)
    /\ UNCHANGED <<cookies, pc, response, received, nonce, tokens, users, settingsUser,
                   file, error, absorbed>>

\* if (response.statusCode === HTTP_STATUS.OK) in fetchAuthenticatedUser
SettingsAccepted(res) == res.statusCode = HTTP_OK

\* fetchAuthenticatedUser after the await of the signed POST.
FetchAuthenticatedUserResume ==
    /\ pc = "fetchAuthenticatedUser"
    /\ response # NoResponse
    /\ response' = NoResponse
    /\ IF response.kind = "rejected"
       THEN Rejected /\ UNCHANGED settingsUser
       ELSE IF SettingsAccepted(response)
            THEN IF JsonParse(response.body) = Malformed
                 THEN Throw(Error(SYNTAX_ERROR)) /\ UNCHANGED settingsUser
                 ELSE /\ settingsUser' = JsonParse(response.body)
                      /\ pc' = "fetchAllUsers"
                      /\ UNCHANGED <<error, file>>
            ELSE /\ Throw(StatusError(FETCH_AUTHENTICATED_USER_FAILED, response.statusCode))
                 /\ UNCHANGED settingsUser
    /\ UNCHANGED <<cookies, inflight, sent, received, nonce, tokens, timestamp, checkcode,
                   users, now, absorbed>>

\* Mutant of ExistingUser: an entry matches by id only.
ExistingUser_IdOnly(list, user) ==
    \E i \in 1..Len(list) : list[i].id = user.id

\* users.find(user => user.id === settingsUser.id || user.email === settingsUser.email)
ExistingUser(list, user) ==
    \E i \in 1..Len(list) : list[i].id = user.id \/ list[i].email = user.email

\* The aggregation of fetchAllUsers: find, push, return.  Reading .id of a null
\* settingsUser throws a TypeError, which happens when find calls its callback.
FetchAllUsersMerge ==
    /\ pc = "fetchAllUsers"
    /\ IF settingsUser.kind = "null" /\ Len(users.items) > 0
       THEN Throw(Error(TYPE_ERROR)) /\ UNCHANGED users
       ELSE /\ users' = IF settingsUser.kind # "null" /\ ExistingUser(users.items, settingsUser)
                        THEN users
                        ELSE JsonArray(Append(users.items, settingsUser))
            /\ pc' = "saveUsersToFile"
            /\ UNCHANGED <<error, file>>
    /\ UNCHANGED <<cookies, inflight, response, sent, received, nonce, tokens, timestamp,
                   checkcode, settingsUser, now, absorbed>>

\* Mutant of SaveUsersToFile: main writes the file and does not return, it comes
\* back to the write.
SaveUsersToFile_Again ==
    /\ pc = "saveUsersToFile"
    /\ file' = [kind |-> "written", content |-> users.items]
    /\ UNCHANGED <<pc, error>>
    /\ UNCHANGED <<cookies, inflight, response, sent, received, nonce, tokens, timestamp,
                   checkcode, users, settingsUser, now, absorbed>>

\* saveUsersToFile and the end of main's try block.  The file system is taken
\* to accept the write: its failures are not part of the model.
SaveUsersToFile ==
    /\ pc = "saveUsersToFile"
    /\ file' = [kind |-> "written", content |-> users.items]
    /\ pc' = "Complete"
    /\ UNCHANGED error
    /\ UNCHANGED <<cookies, inflight, response, sent, received, nonce, tokens, timestamp,
                   checkcode, users, settingsUser, now, absorbed>>

Init ==
    /\ cookies = <<>>
    /\ pc = "getLoginNonce"
    /\ inflight = NoRequest
    /\ response = NoResponse
    /\ sent = <<>>
    /\ received = <<>>
    /\ nonce = NoString
    /\ tokens = NoTokens
    /\ timestamp = NoString
    /\ checkcode = NoCheckcode
    /\ users = NoUsers
    /\ settingsUser = NoUser
    /\ file = NoFile
    /\ error = NoError
    /\ now = 0
    /\ absorbed = <<>>

Next ==
    \/ GetLoginNonceSend
    \/ GetLoginNonceResume
    \/ LoginSend
    \/ LoginResume
    \/ FetchUsersSend
    \/ FetchUsersResume
    \/ GetSettingsTokensSend
    \/ GetSettingsTokensResume
    \/ FetchAuthenticatedUserSend
    \/ FetchAuthenticatedUserResume
    \/ FetchAllUsersMerge
    \/ SaveUsersToFile
    \/ OnResponseEnd
    \/ OnRequestError

Spec == Init /\ [][Next]_vars

(***************************************************************************)
(* The run under scheduling.  Transport: the socket of a request that is   *)
(* out ends in 'end' or in 'error'.  Program: Node runs the synchronous    *)
(* code of main and the continuation of every settled await.               *)
(***************************************************************************)
Transport == OnResponseEnd \/ OnRequestError

Program ==
    \/ GetLoginNonceSend
    \/ GetLoginNonceResume
    \/ LoginSend
    \/ LoginResume
    \/ FetchUsersSend
    \/ FetchUsersResume
    \/ GetSettingsTokensSend
    \/ GetSettingsTokensResume
    \/ FetchAuthenticatedUserSend
    \/ FetchAuthenticatedUserResume
    \/ FetchAllUsersMerge
    \/ SaveUsersToFile

SpecLive == Init /\ [][Next]_vars /\ WF_vars(Transport) /\ WF_vars(Program)

(***************************************************************************)
(* The cookie jar on its own: parseCookies applied to any sequence of      *)
(* set-cookie headers.                                                     *)
(***************************************************************************)
JarEntries ==
    { <<"s", "=", "1">>, <<"s", "=", "2">>, <<"t", "=", "1">>, <<"t", "=", "2">>,
      <<"s", "=", "1", ";", " ", "P", "=", "/">>, <<"t", "=", "2", ";", "H">>,
      <<"s", "=">>, <<"s", "=", ";", " ", "M", "=", "0">>, <<"t", "=">>,
      <<"s">>, <<"=", "1">>, <<";", "s", "=", "1">>,
      <<"s", "=", "1", "=", "2">>, <<"s", "=", "=", "1">>,
      <<" ", "s", " ", "=", " ", "2", " ">>, <<"s", "=", " ">>, <<" ", "=", "1">>,
      <<"t", " ", "=", "1", " ", ";">> }

JarSetCookieHeaders ==
    {NoSetCookie, OneSetCookie(<<>>)}
        \cup {OneSetCookie(e) : e \in JarEntries}
        \cup {ManySetCookie(<<e, <<"s", "=", "2">> >>) : e \in JarEntries}
        \cup {ManySetCookie(<< <<"t", "=", "1">>, <<>>, e >>) : e \in JarEntries}

JarAbsorb ==
    /\ \E setCookie \in JarSetCookieHeaders :
          /\ Len(absorbed) + Len(CookieArray(setCookie)) <= MaxAbsorbs
          /\ cookies' = parseCookies(cookies, setCookie)
          /\ absorbed' = absorbed \o CookieArray(setCookie)
    /\ UNCHANGED <<pc, inflight, response, sent, received, nonce, tokens, timestamp,
                   checkcode, users, settingsUser, file, error, now>>

SpecJar == Init /\ [][JarAbsorb]_vars

(***************************************************************************)
(* The aggregation on its own: fetchAllUsers from its find on, applied to  *)
(* any bulk list and any authenticated user the two fetches may return.    *)
(***************************************************************************)
MergeUsers ==
    {User(id, firstName, "L", email) :
        id \in {"1", "2"}, firstName \in {"Ann", "Bob"}, email \in {"a@x.com", "b@x.com"}}

BulkLists == UNION {[1..n -> MergeUsers] : n \in 0..MaxBulk}

InitMerge ==
    /\ cookies = <<>>
    /\ pc = "fetchAllUsers"
    /\ inflight = NoRequest
    /\ response = NoResponse
    /\ sent = <<>>
    /\ received = <<>>
    /\ nonce = NoString
    /\ tokens = NoTokens
    /\ timestamp = NoString
    /\ checkcode = NoCheckcode
    /\ users \in {JsonArray(list) : list \in BulkLists}
    /\ settingsUser \in MergeUsers \cup {JsonNull}
    /\ file = NoFile
    /\ error = NoError
    /\ now = 0
    /\ absorbed = <<>>

NextMerge ==
    \/ FetchAllUsersMerge
    \/ SaveUsersToFile

SpecMerge == InitMerge /\ [][NextMerge]_vars

(***************************************************************************)
(* The signature on its own: generateCheckcode applied, any number of      *)
(* times, to any tokens and timestamp while the session absorbs cookies.   *)
(***************************************************************************)
SignTokens ==
    {[kind |-> "tokens",
      access_token |-> FieldValue("access_token", v[1]),
      openId |-> FieldValue("openId", v[2]),
      userId |-> FieldValue("userId", v[3]),
      apiuser |-> FieldValue("apiuser", v[4]),
      operateId |-> FieldValue("operateId", v[5]),
      language |-> FieldValue("language", v[6])] : v \in [1..6 -> {1, 2, 3}]}

SignTimestamps == {TimestampOf(t) : t \in ClockValues}

InitSign ==
    /\ cookies = <<>>
    /\ pc = "fetchAuthenticatedUser"
    /\ inflight = NoRequest
    /\ response = NoResponse
    /\ sent = <<>>
    /\ received = <<>>
    /\ nonce = NoString
    /\ tokens \in SignTokens
    /\ timestamp \in SignTimestamps
    /\ checkcode = NoCheckcode
    /\ users = NoUsers
    /\ settingsUser = NoUser
    /\ file = NoFile
    /\ error = NoError
    /\ now = 0
    /\ absorbed = <<>>

\* const checkcode = this.generateCheckcode(tokens, timestamp)
GenerateCheckcodeCall ==
    /\ checkcode' = generateCheckcode(tokens, timestamp)
    /\ UNCHANGED <<cookies, pc, inflight, response, sent, received, nonce, tokens,
                   timestamp, users, settingsUser, file, error, now, absorbed>>

\* The session absorbs the cookies of a response between two signatures.
SignAbsorb ==
    /\ \E setCookie \in SetCookieHeaders :
          /\ Len(absorbed) + Len(CookieArray(setCookie)) <= MaxAbsorbs
          /\ cookies' = parseCookies(cookies, setCookie)
          /\ absorbed' = absorbed \o CookieArray(setCookie)
    /\ UNCHANGED <<pc, inflight, response, sent, received, nonce, tokens, timestamp,
                   checkcode, users, settingsUser, file, error, now>>

NextSign ==
    \/ GenerateCheckcodeCall
    \/ SignAbsorb

SpecSign == InitSign /\ [][NextSign]_vars

(***************************************************************************)
(* The states of the run, read off main's position.                        *)
(***************************************************************************)
RunState ==
    CASE pc = "getLoginNonce" -> "Unauthenticated"
      [] pc = "login" -> "NonceObtained"
      [] pc \in {"fetchUsers", "getSettingsTokens"} -> "LoggedIn"
      [] pc = "fetchAuthenticatedUser" -> "TokensObtained"
      [] pc \in {"fetchAllUsers", "saveUsersToFile"} -> "AuthenticatedUserFetched"
      [] pc = "Complete" -> "Complete"
      [] pc = "Failed" -> "Failed"

StateRank(state) ==
    CASE state = "Unauthenticated" -> 0
      [] state = "NonceObtained" -> 1
      [] state = "LoggedIn" -> 2
      [] state = "TokensObtained" -> 3
      [] state = "AuthenticatedUserFetched" -> 4
      [] state = "Complete" -> 5
      [] state = "Failed" -> 6

(***************************************************************************)
(* Vocabulary of the properties: what the k-th request of a run is, and    *)
(* what its answer shows.                                                  *)
(***************************************************************************)
RequestOrder ==
    << <<"GET", EP_LOGIN>>, <<"POST", EP_LOGIN>>, <<"POST", EP_USERS>>,
       <<"GET", EP_SETTINGS_TOKENS>>, <<"POST", EP_SETTINGS>> >>

\* The k-th answer arrived and its awaiter has run.
Handled(k) == Len(received) > k \/ (Len(received) = k /\ response = NoResponse)

Answered(k) == Len(received) >= k /\ received[k].kind = "response"

Is2xx(status) == status >= 200 /\ status <= 299

\* The page shows a non-empty value for the input with this attribute.
ShowsInput(body, attr, key) ==
    /\ body.kind = "html"
    /\ \E i \in 1..Len(body.inputs) :
          /\ body.inputs[i].attr = attr
          /\ body.inputs[i].key = key
          /\ body.inputs[i].value # <<>>

ShowsNonce(body) == ShowsInput(body, "name", "nonce")

ShowsAllTokens(body) == \A f \in TokenFields : ShowsInput(body, "id", f)

IsJson(body) == body.kind = "json"

\* The k-th step succeeded, as the program counts success.
NonceFetched == Answered(1) /\ ShowsNonce(received[1].body)
LoggedIn == Answered(2) /\ received[2].statusCode = 302
BulkUsersFetched == Answered(3) /\ received[3].statusCode = 200 /\ IsJson(received[3].body)
TokensFetched ==
    Answered(4) /\ received[4].statusCode = 200 /\ ShowsAllTokens(received[4].body)
SignedFetched == Answered(5) /\ received[5].statusCode = 200 /\ IsJson(received[5].body)

(***************************************************************************)
(* C1.  The requests of a run follow the order GET /login, POST /login,    *)
(* POST /api/users, GET /settings/tokens, POST /api/settings, and the run  *)
(* only advances through the states in order: the login POST is sent only  *)
(* after a nonce was extracted from the answer to GET /login, the bulk     *)
(* users POST and the tokens GET only after the login POST was answered    *)
(* 302, the signed POST only after all six tokens were extracted, and      *)
(* Complete is reached only after both user fetches succeeded.             *)
(***************************************************************************)
C1_RequestOrder ==
    LET rank == StateRank(RunState)
    IN /\ Len(sent) <= Len(RequestOrder)
       /\ \A k \in 1..Len(sent) :
             <<sent[k].method, sent[k].path>> = RequestOrder[k]
       /\ \A k \in 2..Len(sent) : Handled(k - 1)
       /\ Len(sent) >= 2 \/ rank \in 1..5 => NonceFetched
       /\ Len(sent) >= 3 \/ rank \in 2..5 => LoggedIn
       /\ Len(sent) >= 5 \/ rank \in 3..5 => TokensFetched
       /\ rank \in 4..5 => SignedFetched
       /\ rank = 5 => BulkUsersFetched /\ Handled(5)

C1_Witness == RunState = "Complete" /\ Len(sent) = 5

(***************************************************************************)
(* C2.  Every failure is fatal and immediate: once the answer to the k-th  *)
(* request is a transport error, shows no nonce, shows fewer than six      *)
(* tokens or carries an unexpected status, the run is Failed, the k-th     *)
(* request stays the last one sent, and a Failed run has no request in     *)
(* flight and is never Complete.                                           *)
(***************************************************************************)
StepFailed(k) ==
    \/ received[k].kind = "rejected"
    \/ /\ received[k].kind = "response"
       /\ \/ k = 1 /\ ~ShowsNonce(received[k].body)
          \/ k = 2 /\ received[k].statusCode # 302
          \/ k \in 3..5 /\ ~Is2xx(received[k].statusCode)
          \/ k = 4 /\ ~ShowsAllTokens(received[k].body)

C2_FailureIsFatal ==
    /\ \A k \in 1..Len(received) :
          Handled(k) /\ StepFailed(k) => RunState = "Failed" /\ Len(sent) = k
    /\ error # NoError => RunState = "Failed"
    /\ RunState = "Failed" =>
          /\ error # NoError
          /\ inflight = NoRequest
          /\ response = NoResponse
          /\ Len(sent) = Len(received)

C2_Witness ==
    /\ RunState = "Failed"
    /\ Len(received) = 3
    /\ received[3].kind = "rejected"

(***************************************************************************)
(* C3.  users.json is written only in a run in which the nonce fetch, the  *)
(* login, the bulk users fetch, the tokens fetch and the signed fetch all  *)
(* succeeded; a Failed run has written no file, not even the bulk users.   *)
(***************************************************************************)
C3_NoPartialOutput ==
    /\ file # NoFile =>
          /\ NonceFetched /\ LoggedIn /\ BulkUsersFetched /\ TokensFetched /\ SignedFetched
          /\ RunState = "Complete"
    /\ RunState = "Failed" => file = NoFile

C3_Witness ==
    /\ RunState = "Failed"
    /\ users # NoUsers
    /\ Len(users.items) > 0
    /\ Len(sent) = 5

(***************************************************************************)
(* C4.  Login status contract: when the login POST is answered 302 the run *)
(* moves to LoggedIn; for any other status, 200 included, the run fails    *)
(* with that status in the error and the login POST stays the last request.*)
(***************************************************************************)
C4_LoginStatus ==
    Handled(2) /\ Answered(2) =>
        IF received[2].statusCode = 302
        THEN /\ Len(sent) = 2 => RunState = "LoggedIn"
             /\ error # NoError => error.message # LOGIN_FAILED
        ELSE /\ RunState = "Failed"
             /\ error = StatusError(LOGIN_FAILED, received[2].statusCode)
             /\ Len(sent) = 2

C4_Witness ==
    /\ RunState = "Failed"
    /\ error = StatusError(LOGIN_FAILED, 200)

(***************************************************************************)
(* C5.  Status contract of POST /api/users (k = 3), GET /settings/tokens   *)
(* (k = 4) and the signed POST /api/settings (k = 5).                      *)
(***************************************************************************)
StepMessage(k) ==
    CASE k = 3 -> FETCH_USERS_FAILED
      [] k = 4 -> FETCH_TOKENS_FAILED
      [] k = 5 -> FETCH_AUTHENTICATED_USER_FAILED

WellFormed(k) ==
    IF k = 4 THEN ShowsAllTokens(received[k].body) ELSE IsJson(received[k].body)

\* The run went on to the state that follows the k-th request.
Proceeded(k) ==
    CASE k = 3 -> users # NoUsers
      [] k = 4 -> tokens # NoTokens
      [] k = 5 -> settingsUser # NoUser

StepFatal(k) == RunState = "Failed" /\ Len(sent) = k /\ ~Proceeded(k)

\* C5 as claimed: the step is fatal exactly when the status is non-2xx (or the
\* content is not well formed); every 2xx status with well-formed content lets
\* the run proceed.
C5_FatalIffNon2xx ==
    \A k \in 3..5 :
        Handled(k) /\ Answered(k) =>
            /\ ~Is2xx(received[k].statusCode) =>
                  /\ StepFatal(k)
                  /\ error = StatusError(StepMessage(k), received[k].statusCode)
            /\ Is2xx(received[k].statusCode) /\ WellFormed(k) => Proceeded(k)

\* C5 as amended: the step is fatal exactly when the status is not 200 (or the
\* content is not well formed): every other status, the 2xx ones such as 201
\* included, fails the run with the status in the error, and only 200 with
\* well-formed content lets the run proceed.
C5_FatalIffNot200 ==
    \A k \in 3..5 :
        Handled(k) /\ Answered(k) =>
            /\ received[k].statusCode # 200 =>
                  /\ StepFatal(k)
                  /\ error = StatusError(StepMessage(k), received[k].statusCode)
            /\ received[k].statusCode = 200 /\ WellFormed(k) => Proceeded(k)
            /\ received[k].statusCode = 200 /\ ~WellFormed(k) => StepFatal(k)

C5_Witness ==
    /\ RunState = "Failed"
    /\ error = StatusError(FETCH_TOKENS_FAILED, 201)
    /\ ShowsAllTokens(received[4].body)

(***************************************************************************)
(* Vocabulary of the cookie properties.                                    *)
(***************************************************************************)
Range(seq) == {seq[i] : i \in 1..Len(seq)}

\* The name=value pairs of a Cookie header: the pieces between the "; ".
HeaderPairs(header) ==
    LET pieces == Split(header, ";")
    IN [i \in 1..Len(pieces) |->
           IF i > 1 /\ pieces[i] # <<>> /\ pieces[i][1] = " "
           THEN Tail(pieces[i]) ELSE pieces[i]]

Pair(name, value) == name \o <<"=">> \o value

StoredName(entry) == Trim(CookieName(entry))
StoredValue(entry) == Trim(CookieValue(entry))

\* The <<name, value>> a sequence of set-cookie entries leaves behind: for
\* each name, the value of the last entry that was stored under it.
CookiesSetBy(entries) ==
    LET stored == SelectSeq(entries, CookieAccepted)
        names == [i \in 1..Len(stored) |-> StoredName(stored[i])]
    IN { <<names[i], StoredValue(stored[i])>> :
           i \in {j \in 1..Len(stored) :
                    \A l \in (j + 1)..Len(stored) : names[l] # names[j]} }

EntriesOf(setCookie) ==
    CASE setCookie.kind = "undefined" -> <<>>
      [] setCookie.kind = "string" -> <<setCookie.value>>
      [] setCookie.kind = "array" -> setCookie.list

(***************************************************************************)
(* C6.  Every request is sent with the full current jar: while a request   *)
(* is in flight its Cookie header is the rendering of the jar, one         *)
(* name=value pair for every name in the jar with its current value,       *)
(* whatever the endpoint; the header is absent only when the jar is empty. *)
(***************************************************************************)
C6_FullJarAttached ==
    inflight # NoRequest =>
        IF cookies = <<>>
        THEN ~inflight.cookie.present
        ELSE /\ inflight.cookie.present
             /\ inflight.cookie.value = formatCookies(cookies)
             /\ Len(HeaderPairs(inflight.cookie.value)) = Len(cookies)
             /\ \A i \in 1..Len(cookies) :
                   Pair(cookies[i][1], cookies[i][2])
                       \in Range(HeaderPairs(inflight.cookie.value))

C6_Witness ==
    /\ inflight # NoRequest
    /\ inflight.path = EP_SETTINGS
    /\ Len(cookies) = 2

(***************************************************************************)
(* C7.  Cookies of request N are visible to request N+1: when a response   *)
(* is delivered to its awaiter the jar already holds every cookie it set,  *)
(* and every request, at the time it goes out, carries in its Cookie       *)
(* header each cookie set by the response to the request before it.        *)
(***************************************************************************)
C7_CookiesVisibleToNext ==
    /\ response.kind = "response" =>
          \A p \in CookiesSetBy(EntriesOf(response.setCookie)) : p \in Range(cookies)
    /\ inflight # NoRequest /\ Len(sent) >= 2 =>
          LET earlier == received[Len(sent) - 1]
              pairs == Range(HeaderPairs(inflight.cookie.value))
          IN /\ inflight = sent[Len(sent)]
             /\ earlier.kind = "response"
             /\ \A p \in CookiesSetBy(EntriesOf(earlier.setCookie)) :
                   inflight.cookie.present /\ Pair(p[1], p[2]) \in pairs

C7_Witness ==
    /\ Len(sent) = 3
    /\ inflight # NoRequest
    /\ received[1].setCookie = OneSetCookie(<<"s", "=", "1">>)
    /\ received[2].setCookie # NoSetCookie
    /\ received[2].setCookie # received[1].setCookie
    /\ sent[3].cookie.value = <<"s", "=", "2", ";", " ", "t", "=", "1">>

(***************************************************************************)
(* C8.  After any sequence of absorbed set-cookie entries the jar and its  *)
(* rendering hold exactly one name=value pair per distinct name that was   *)
(* stored, and the pair of a name stored more than once carries the value  *)
(* stored last.                                                            *)
(***************************************************************************)
C8_OnePairPerName ==
    LET expected == CookiesSetBy(absorbed)
        names == {p[1] : p \in expected}
        pairs == HeaderPairs(formatCookies(cookies))
    IN /\ Len(cookies) = Cardinality(names)
       /\ \A p \in expected :
             Cardinality({i \in 1..Len(cookies) : cookies[i][1] = p[1]}) = 1
       /\ \A p \in expected : p \in Range(cookies)
       /\ IF cookies = <<>>
          THEN formatCookies(cookies) = <<>>
          ELSE /\ Len(pairs) = Cardinality(names)
               /\ \A p \in expected :
                     Cardinality({i \in 1..Len(pairs) : pairs[i] = Pair(p[1], p[2])}) = 1

C8_Witness ==
    /\ Len(absorbed) = 3
    /\ absorbed[1] = <<"s", "=", "1">>
    /\ absorbed[2] = <<"t", "=", "1">>
    /\ absorbed[3] = <<"s", "=", "2">>
    /\ formatCookies(cookies) = <<"s", "=", "2", ";", " ", "t", "=", "1">>

(***************************************************************************)
(* C9.  Extraction atomicity: the tokens are set only when the tokens page *)
(* shows all six fields, and then each token is the value the page shows;  *)
(* when any field is missing no token set exists, no timestamp and no      *)
(* checkcode is computed, no signed POST is sent, and the run has failed.  *)
(***************************************************************************)
FirstShown(body, attr, key) ==
    LET shown == {i \in 1..Len(body.inputs) :
                     /\ body.inputs[i].attr = attr
                     /\ body.inputs[i].key = key
                     /\ body.inputs[i].value # <<>>}
    IN body.inputs[CHOOSE i \in shown : \A j \in shown : i <= j].value

ShownFields(body) == {f \in TokenFields : ShowsInput(body, "id", f)}

C9_ExtractionAtomic ==
    /\ tokens # NoTokens =>
          /\ TokensFetched
          /\ \A f \in TokenFields : tokens[f] = FirstShown(received[4].body, "id", f)
    /\ Handled(4) /\ Answered(4) /\ ShownFields(received[4].body) # TokenFields =>
          /\ tokens = NoTokens
          /\ timestamp = NoString
          /\ checkcode = NoCheckcode
          /\ Len(sent) = 4
          /\ RunState = "Failed"
          /\ received[4].statusCode = 200 => error = Error(TOKEN_EXTRACTION_FAILED)

C9_Witness ==
    /\ RunState = "Failed"
    /\ error = Error(TOKEN_EXTRACTION_FAILED)
    /\ Cardinality(ShownFields(received[4].body)) = 5

(***************************************************************************)
(* C10.  The timestamp of a signed request is read from the clock once,    *)
(* after the tokens were obtained: the timestamp field of the body is that *)
(* reading, the signed string was built from the same timestamp, and the   *)
(* six token fields of the body are the extracted tokens, the ones signed. *)
(***************************************************************************)
SignedFields == TokenFields \cup {"timestamp"}

\* The <<name, value>> pieces of a string of name=value joined by '&'.
ParamsOf(string) ==
    LET parts == Split(string, "&")
    IN [i \in 1..Len(parts) |-> Split(parts[i], "=")]

C10_OneTimestamp ==
    /\ tokens = NoTokens => timestamp = NoString /\ checkcode = NoCheckcode
    /\ \A k \in 1..Len(sent) :
          sent[k].path = EP_SETTINGS =>
              LET body == sent[k].body
                  signed == ParamsOf(Get(body, "checkcode").data)
              IN /\ timestamp = TimestampOf(now)
                 /\ Get(body, "timestamp") = timestamp
                 /\ Get(body, "checkcode") = checkcode
                 /\ Range(ObjectKeys(signed)) = {KeyChars(key) : key \in SignedFields}
                 /\ \A key \in SignedFields :
                       Get(signed, KeyChars(key)) = encodeURIComponent(Get(body, key))
                 /\ \A f \in TokenFields : Get(body, f) = tokens[f]

C10_Witness ==
    /\ Len(sent) = 5
    /\ timestamp = <<"1">>
    /\ Get(sent[5].body, "language") = <<"L", " ", "&">>

(***************************************************************************)
(* C11.  The aggregation of a bulk list and an authenticated user returns  *)
(* the bulk list with the authenticated user appended last when no bulk    *)
(* entry has the same id or the same email, and the bulk list unchanged    *)
(* when some entry has; the bulk entries keep their order and their field  *)
(* values, and the result has len(bulk) or len(bulk) + 1 entries.          *)
(***************************************************************************)
SameIdOrEmail(u, v) == u.id = v.id \/ u.email = v.email

C11_Merge ==
    [][pc = "fetchAllUsers" /\ settingsUser.kind = "object" =>
          LET bulk == users.items
              result == users'.items
              matched == \E i \in 1..Len(bulk) : SameIdOrEmail(bulk[i], settingsUser)
          IN /\ pc' = "saveUsersToFile"
             /\ result = IF matched THEN bulk ELSE bulk \o <<settingsUser>>
             /\ Len(result) = Len(bulk) + (IF matched THEN 0 ELSE 1)
             /\ \A i \in 1..Len(bulk) : result[i] = bulk[i]]_vars

C11_Witness ==
    /\ pc = "saveUsersToFile"
    /\ sent = <<>>
    /\ settingsUser.kind = "object"
    /\ Len(users.items) = 2
    /\ users.items[2] = settingsUser
    /\ users.items[1].firstName = settingsUser.firstName
    /\ ~SameIdOrEmail(users.items[1], settingsUser)

(***************************************************************************)
(* C12.  Signing is pure and deterministic: a signature computed again     *)
(* from the same six tokens and the same timestamp is the checkcode that   *)
(* was computed before, whatever the cookie jar absorbed in between, and a *)
(* step that computes a checkcode changes nothing else of the session.     *)
(***************************************************************************)
C12_SigningPure ==
    [][/\ checkcode # NoCheckcode /\ tokens' = tokens /\ timestamp' = timestamp =>
             checkcode' = checkcode
       /\ checkcode' # checkcode =>
             UNCHANGED <<cookies, pc, inflight, response, sent, received, nonce, tokens,
                         timestamp, users, settingsUser, file, error, now, absorbed>>]_vars

C12_Witness ==
    /\ checkcode # NoCheckcode
    /\ sent = <<>>
    /\ Len(cookies) = 2
    /\ Len(absorbed) = 3
    /\ tokens.language = <<"L", " ", "&">>

(***************************************************************************)
(* C13.  The string that is signed consists of exactly seven name=value    *)
(* pieces joined by '&': the six settings tokens and timestamp, never      *)
(* checkcode, with the names in ASCII byte order (access_token, apiuser,   *)
(* language, openId, operateId, timestamp, userId), and each value is the  *)
(* percent-encoding of the field, which decodes back to the field.         *)
(***************************************************************************)
SignedNames == <<"access_token", "apiuser", "language", "openId", "operateId",
                 "timestamp", "userId">>

\* The character a %XX escape stands for.
Unescape(hi, lo) ==
    CASE hi = "2" /\ lo = "0" -> " "
      [] hi = "2" /\ lo = "5" -> "%"
      [] hi = "2" /\ lo = "6" -> "&"
      [] hi = "3" /\ lo = "D" -> "="

RECURSIVE PercentDecode(_)
PercentDecode(s) ==
    IF s = <<>> THEN <<>>
    ELSE IF s[1] = "%" THEN <<Unescape(s[2], s[3])>> \o PercentDecode(SubSeq(s, 4, Len(s)))
    ELSE <<s[1]>> \o PercentDecode(Tail(s))

Unreserved(c) == c \notin {" ", "%", "&", "=", ";"}

C13_SignedString ==
    checkcode # NoCheckcode =>
        LET params == ParamsOf(checkcode.data)
            field(name) == IF name = "timestamp" THEN timestamp ELSE tokens[name]
        IN /\ checkcode.key = SECRET
           /\ Len(params) = Len(SignedNames)
           /\ \A i \in 1..Len(params) :
                 /\ Len(params[i]) = 2
                 /\ params[i][1] = KeyChars(SignedNames[i])
                 /\ \A j \in 1..Len(params[i][2]) :
                       Unreserved(params[i][2][j]) \/ params[i][2][j] = "%"
                 /\ PercentDecode(params[i][2]) = field(SignedNames[i])

C13_Witness ==
    /\ checkcode # NoCheckcode
    /\ tokens.access_token = <<"A", " ", "&">>
    /\ tokens.userId = <<"U", "=", "%">>
    /\ timestamp = <<"1">>
    /\ checkcode.data[Len(checkcode.data)] = "5"

(***************************************************************************)
(* C14.  Each absorbed set-cookie entry is cut at its first ';' and the    *)
(* prefix is cut at its first '=': the name is the text before that '=',   *)
(* the value the whole text after it, further '=' included; the entry is   *)
(* stored, name to value, exactly when both are non-empty, so the jar      *)
(* holds the pair of the last entry absorbed when that entry is stored,    *)
(* and is empty while no absorbed entry was to be stored.                  *)
(***************************************************************************)
FirstIndexOf(s, c) == CHOOSE i \in 1..Len(s) : s[i] = c /\ \A j \in 1..(i - 1) : s[j] # c

HasChar(s, c) == \E i \in 1..Len(s) : s[i] = c

PrefixOf(entry) ==
    IF HasChar(entry, ";") THEN SubSeq(entry, 1, FirstIndexOf(entry, ";") - 1) ELSE entry

NameBeforeFirstEquals(entry) ==
    SubSeq(PrefixOf(entry), 1, FirstIndexOf(PrefixOf(entry), "=") - 1)

ValueAfterFirstEquals(entry) ==
    SubSeq(PrefixOf(entry), FirstIndexOf(PrefixOf(entry), "=") + 1, Len(PrefixOf(entry)))

ToBeStored(entry) ==
    /\ HasChar(PrefixOf(entry), "=")
    /\ NameBeforeFirstEquals(entry) # <<>>
    /\ ValueAfterFirstEquals(entry) # <<>>

C14_SplitOnFirstEquals ==
    /\ absorbed # <<>> /\ ToBeStored(absorbed[Len(absorbed)]) =>
          <<Trim(NameBeforeFirstEquals(absorbed[Len(absorbed)])),
            Trim(ValueAfterFirstEquals(absorbed[Len(absorbed)]))>> \in Range(cookies)
    /\ (\A i \in 1..Len(absorbed) : ~ToBeStored(absorbed[i])) => cookies = <<>>

(***************************************************************************)
(* C15.  The signed POST /api/settings is the only request of a run that   *)
(* goes to the API origin and every other request goes to the base origin; *)
(* the signed POST carries the jar like any other request: one name=value  *)
(* pair in its Cookie header for every cookie of the session.              *)
(***************************************************************************)
IsSignedPost(req) == req.method = "POST" /\ req.path = EP_SETTINGS

C15_ApiOriginOnlySigned ==
    /\ \A k \in 1..Len(sent) :
          sent[k].baseUrl = IF IsSignedPost(sent[k]) THEN API_BASE_URL ELSE BASE_URL
    /\ Cardinality({k \in 1..Len(sent) : sent[k].baseUrl = API_BASE_URL}) <= 1
    /\ inflight # NoRequest /\ IsSignedPost(inflight) =>
          /\ inflight.baseUrl = API_BASE_URL
          /\ inflight.cookie.present = (cookies # <<>>)
          /\ \A i \in 1..Len(cookies) :
                Pair(cookies[i][1], cookies[i][2])
                    \in Range(HeaderPairs(inflight.cookie.value))

C15_Witness ==
    /\ Len(sent) = 5
    /\ sent[5].baseUrl = API_BASE_URL
    /\ \A k \in 1..4 : sent[k].baseUrl = BASE_URL
    /\ sent[5].cookie.present
    /\ sent[5].cookie.value = <<"s", "=", "1", ";", " ", "t", "=", "1">>

(***************************************************************************)
(* C16.  The nonce of a run is the value extracted from the answer to its  *)
(* GET /login and nothing else; the login POST sends exactly that value in *)
(* its nonce field, and no request after the login POST has a nonce field  *)
(* or carries the nonce in a field of its body.                            *)
(***************************************************************************)
C16_NonceUsedOnce ==
    /\ nonce # NoString =>
          /\ NonceFetched
          /\ nonce = FirstShown(received[1].body, "name", "nonce")
    /\ Len(sent) >= 2 =>
          /\ nonce # NoString
          /\ ObjectKeys(sent[2].body) = <<"nonce", "username", "password">>
          /\ Get(sent[2].body, "nonce") = nonce
    /\ \A k \in 3..Len(sent) :
          \A j \in 1..Len(sent[k].body) :
              /\ sent[k].body[j][1] # "nonce"
              /\ sent[k].body[j][1] # "checkcode" => sent[k].body[j][2] # nonce

C16_Witness ==
    /\ Len(sent) = 5
    /\ nonce = Nonce2
    /\ Get(sent[2].body, "nonce") = Nonce2
    /\ Len(received[1].body.inputs) = 4

(***************************************************************************)
(* C17.  At most one request is in flight: the requests sent are at most   *)
(* one ahead of the answers received, a request is only sent when every    *)
(* earlier one was answered or failed and its cookies were absorbed (every *)
(* set-cookie entry absorbed comes from an answer received, in order), and *)
(* the requests of the authenticated-user fetch are sent only after the    *)
(* bulk users fetch returned.                                              *)
(***************************************************************************)
RECURSIVE EntriesReceived(_)
EntriesReceived(answers) ==
    IF answers = <<>> THEN <<>>
    ELSE (IF answers[1].kind = "response" THEN CookieArray(answers[1].setCookie) ELSE <<>>)
             \o EntriesReceived(Tail(answers))

C17_OneInFlight ==
    /\ Len(sent) = Len(received) + (IF inflight # NoRequest THEN 1 ELSE 0)
    /\ inflight # NoRequest => inflight = sent[Len(sent)] /\ response = NoResponse
    /\ absorbed = EntriesReceived(received)
    /\ \A k \in 1..Len(sent) :
          sent[k].path \in {EP_SETTINGS_TOKENS, EP_SETTINGS} =>
              /\ users # NoUsers
              /\ \E j \in 1..(k - 1) : sent[j].path = EP_USERS /\ Handled(j)

C17_Witness ==
    /\ inflight # NoRequest
    /\ inflight.path = EP_SETTINGS_TOKENS
    /\ Len(received) = 3
    /\ Len(absorbed) = 4

(***************************************************************************)
(* C18.  There is no retry: a run sends each of GET /login, POST /login,   *)
(* POST /api/users, GET /settings/tokens and POST /api/settings at most    *)
(* once, so at most five requests, whatever the answers are.               *)
(***************************************************************************)
C18_NoRetry ==
    /\ Len(sent) <= 5
    /\ \A j, k \in 1..Len(sent) :
          j # k => <<sent[j].method, sent[j].path>> # <<sent[k].method, sent[k].path>>
    /\ \A k \in 1..Len(sent) : <<sent[k].method, sent[k].path>> \in Range(RequestOrder)

C18_Witness ==
    /\ pc = "Failed"
    /\ Len(sent) = 2
    /\ received[1].statusCode = 404
    /\ received[2].kind = "response"
    /\ received[2].statusCode = 404

(***************************************************************************)
(* C19.  When the transport answers every request that is out, with a      *)
(* response or with an error, and the program takes every step it can      *)
(* take, every run reaches Complete or Failed: no state waits forever and  *)
(* none is visited in a loop.                                              *)
(***************************************************************************)
C19_Terminates == <>(pc \in {"Complete", "Failed"})

\* The fifth request ended in a transport error and the run ended with it.
C19_Witness ==
    /\ pc = "Failed"
    /\ Len(sent) = 5
    /\ Len(received) = 5
    /\ received[5].kind = "rejected"
    /\ inflight = NoRequest

(***************************************************************************)
(* C20.  The collection written to users.json is deduplicated: whatever    *)
(* the bulk list (one with two entries of the same id or the same email    *)
(* included) and the authenticated user, no two entries of the output have *)
(* the same id or the same email.                                          *)
(***************************************************************************)
C20_OutputDeduplicated ==
    file # NoFile =>
        \A i, j \in 1..Len(file.content) :
            i < j => ~SameIdOrEmail(file.content[i], file.content[j])

\* The jar after the first k absorbed entries.
JarAfter(k) == ForEachCookie(<<>>, SubSeq(absorbed, 1, k))

JarNames(map) == {map[i][1] : i \in 1..Len(map)}

\* name=;... : the value between the first '=' and the first ';' is empty.
EmptyValued(entry) ==
    HasChar(PrefixOf(entry), "=") /\ ValueAfterFirstEquals(entry) = <<>>

\* A name that was in the jar after some entry is in the jar now.
NamesStay ==
    \A k \in 0..Len(absorbed) : JarNames(JarAfter(k)) \subseteq JarNames(cookies)

\* An entry with an empty value left the jar, and what formatCookies renders
\* from it, as they were.
EmptyValueIgnored ==
    \A k \in 1..Len(absorbed) :
        EmptyValued(absorbed[k]) =>
            /\ JarAfter(k) = JarAfter(k - 1)
            /\ formatCookies(JarAfter(k)) = formatCookies(JarAfter(k - 1))

ValuesNonEmpty == \A i \in 1..Len(cookies) : cookies[i][2] # <<>>

(***************************************************************************)
(* C21.  The jar never evicts: a name that is in the jar stays in it with  *)
(* a non-empty value, and a set-cookie entry with an empty value for a     *)
(* name (a deletion such as 'sid=; Max-Age=0') leaves the jar as it was:    *)
(* the name stays, its value stays, and so does what formatCookies sends.  *)
(***************************************************************************)
C21_NeverEvicts ==
    /\ cookies = JarAfter(Len(absorbed))
    /\ NamesStay
    /\ ValuesNonEmpty
    /\ EmptyValueIgnored

(***************************************************************************)
(* C22.  Unauthenticated -> NonceObtained depends on the extraction only:  *)
(* whatever the status of the answer to GET /login (2xx, 302, 4xx, 5xx),   *)
(* when its body shows a nonce the run takes that nonce, is NonceObtained   *)
(* and sends the login POST with it; when the body shows none the run has  *)
(* failed with the extraction failure and GET /login stays the last        *)
(* request.                                                                *)
(***************************************************************************)
C22_NonceByExtractionOnly ==
    Handled(1) /\ Answered(1) /\ received[1].statusCode \in LoginPageStatuses =>
        IF ShowsNonce(received[1].body)
        THEN /\ nonce = FirstShown(received[1].body, "name", "nonce")
             /\ IF Len(sent) = 1
                THEN RunState = "NonceObtained" /\ error = NoError /\ ENABLED LoginSend
                ELSE /\ <<sent[2].method, sent[2].path>> = <<"POST", EP_LOGIN>>
                     /\ Get(sent[2].body, "nonce") = nonce
        ELSE /\ RunState = "Failed"
             /\ Len(sent) = 1
             /\ error = Error(NONCE_EXTRACTION_FAILED)
             /\ nonce = NoString

\* The login page came with a server error and a nonce, and the login POST went
\* out with that nonce.
C22_Witness ==
    /\ Len(sent) >= 2
    /\ received[1].kind = "response"
    /\ received[1].statusCode = 500
    /\ ShowsNonce(received[1].body)
    /\ Get(sent[2].body, "nonce") = FirstShown(received[1].body, "name", "nonce")

====
